---- MODULE Spec2Model ----
\* Verification model of knowlet/scanner: the resumable breadth-first crawler
\* (src/src/scanner/crawler.py) with its form handling, the API prefix
\* analyzer (analyzer.py), the endpoint prober (prober.py) and the one-click
\* pipeline (main.py) with the shutdown of its capturing proxy.  Each
\* component has its own variables and its own specification; the variables
\* of the components a specification leaves out keep their idle values.
\* A URL string is a record of the parts urlparse() splits it into; a path is
\* a sequence of one-character strings or tokens, so that suffix tests,
\* lower-casing, slash stripping, splitting and placeholder replacement are
\* computed and not assumed.
EXTENDS Integers, Sequences, FiniteSets, TLC

\* ---------------------------------------------------------------- bounds
\* --depth values tried: 0..MaxDepth
MaxDepth == 2
\* number of run_crawler invocations in one behaviour (the first + resumes)
MaxRuns == 2
\* number of failures (navigation, link extraction, checkpoint write, context
\* close) the environment injects in one behaviour
MaxFaults == 1

\* ---------------------------------------------------------------- strings
UpperAlpha == <<"A","B","C","D","E","F","G","H","I","J","K","L","M",
                "N","O","P","Q","R","S","T","U","V","W","X","Y","Z">>
LowerAlpha == <<"a","b","c","d","e","f","g","h","i","j","k","l","m",
                "n","o","p","q","r","s","t","u","v","w","x","y","z">>

\* str.lower() on one character
LowerChar(c) ==
    IF \E i \in 1..Len(UpperAlpha) : UpperAlpha[i] = c
    THEN LowerAlpha[CHOOSE i \in 1..Len(UpperAlpha) : UpperAlpha[i] = c]
    ELSE c

\* str.lower()
Lower(s) == [i \in 1..Len(s) |-> LowerChar(s[i])]

\* str.endswith(suffix)
EndsWith(s, suffix) ==
    /\ Len(suffix) <= Len(s)
    /\ SubSeq(s, Len(s) - Len(suffix) + 1, Len(s)) = suffix

\* the static_exts set literal of is_static_asset
static_exts ==
    { <<".","j","p","g">>, <<".","j","p","e","g">>, <<".","p","n","g">>,
      <<".","g","i","f">>, <<".","c","s","s">>, <<".","j","s">>,
      <<".","i","c","o">>, <<".","s","v","g">>, <<".","w","o","f","f">>,
      <<".","w","o","f","f","2">>, <<".","t","t","f">>, <<".","e","o","t">>,
      <<".","m","p","4">>, <<".","m","p","3">>, <<".","p","d","f">> }

\* faulty variant: the extension is compared without lower-casing the path
is_static_asset_caseSensitive(path) == \E ext \in static_exts : EndsWith(path, ext)

\* AsyncCrawler.is_static_asset
is_static_asset(path) == \E ext \in static_exts : EndsWith(Lower(path), ext)

\* ---------------------------------------------------------------- URLs
\* an absolute URL without fragment: what urlparse() returns for it
Url(scheme, netloc, path) == [scheme |-> scheme, netloc |-> netloc, path |-> path]
\* an href as the browser reports it (e.href), possibly with a "#fragment"
Href(scheme, netloc, path, frag) ==
    [scheme |-> scheme, netloc |-> netloc, path |-> path, frag |-> frag]

\* extract_links: href.split("#")[0], then strip one trailing "/"
CleanHref(h) ==
    LET noFrag == Url(h.scheme, h.netloc, h.path)
    IN  IF Len(noFrag.path) > 0 /\ noFrag.path[Len(noFrag.path)] = "/"
        THEN Url(noFrag.scheme, noFrag.netloc, SubSeq(noFrag.path, 1, Len(noFrag.path) - 1))
        ELSE noFrag

\* the pages of the target site and the hrefs they may carry
RootSlash == Url("http", "test.com", <<"/">>)
Root      == Url("http", "test.com", <<>>)
PageA     == Url("http", "test.com", <<"/","a">>)
PageB     == Url("http", "test.com", <<"/","b">>)
PageC     == Url("https", "test.com", <<"/","c">>)

hRoot  == Href("http", "test.com", <<"/">>, "")
hA     == Href("http", "test.com", <<"/","a">>, "")
hB     == Href("http", "test.com", <<"/","b","/">>, "top")
hC     == Href("https", "test.com", <<"/","c">>, "")
hExt   == Href("http", "google.com", <<"/">>, "")
hImg   == Href("http", "test.com", <<"/","i",".","p","n","g">>, "")
hImgUp == Href("http", "test.com", <<"/","I",".","P","N","G">>, "")
hFtp   == Href("ftp", "test.com", <<"/","f">>, "")

\* the document a URL serves: "http://test.com" and "http://test.com/" are
\* the same page of the site
PageOf(url) == IF url = RootSlash THEN Root ELSE url

NoLinks == [p \in {Root, PageA, PageB, PageC} |-> {}]
\* test_crawl_flow: the start page links to a page, an external site, an image
SiteFlow  == [NoLinks EXCEPT ![Root] = {hA, hExt, hImg}]
\* spec scenario: the start page links to itself, an external site, an image
SiteSelf  == [NoLinks EXCEPT ![Root] = {hRoot, hExt, hImg}]
\* a diamond with cycles: PageC is discovered twice, PageA links back to the
\* start page and PageB to its sibling
SiteDiamond == [NoLinks EXCEPT ![Root] = {hA, hB},
                               ![PageA] = {hC, hRoot, hFtp},
                               ![PageB] = {hC, hImgUp, hA},
                               ![PageC] = {hA}]
\* a chain longer than the depth limit
SiteChain == [NoLinks EXCEPT ![Root] = {hA}, ![PageA] = {hB},
                             ![PageB] = {hC}, ![PageC] = {hRoot}]
Sites == {SiteFlow, SiteSelf, SiteDiamond, SiteChain}
StartUrls == {Root, RootSlash}
Depths == 0..MaxDepth

\* all orders in which a finite set can be iterated
Perms(S) == { s \in [1..Cardinality(S) -> S] : \A x \in S : \E i \in DOMAIN s : s[i] = x }
SeqRange(s) == { s[i] : i \in DOMAIN s }

\* ---------------------------------------------------------------- state
VARIABLES
    site,        \* the target site: page -> hrefs of its anchors (never changes)
    start_url,   \* AsyncCrawler.start_url
    max_depth,   \* AsyncCrawler.max_depth of the current run
    visited,     \* AsyncCrawler.visited
    queue,       \* AsyncCrawler.queue: sequence of <<url, depth>>
    state_file,  \* the checkpoint file at AsyncCrawler.state_path
    pc,          \* position of the current run inside run_crawler / crawl
    cur,         \* <<current_url, depth>> of the iteration in progress, or <<>>
    context,     \* the recording browser context: "none", "open", "closed"
    run,         \* number of the current run_crawler invocation
    navigated,   \* history: <<url, depth>> of every page.goto of this run, in order
    discarded,   \* history: entries dropped for depth > max_depth in this run
    failed,      \* history: URLs whose processing raised in this run
    exitKind,    \* history: how the fetch loop was left: "none", "clean", "interrupt", "error"
    outcome,     \* how crawl ended: "none", "returned", "raised"
    closeFailed, \* history: context.close() raised in this run
    fileAtExit,  \* history: the checkpoint file when the fetch loop was left
    faults,      \* history: number of per-URL and I/O failures injected so far  
    sameDepth,   \* history: every run so far used the same max_depth
    lastRun      \* history: how the previous run left its loop, and the checkpoint then

vars == <<site, start_url, max_depth, visited, queue, state_file, pc, cur,
          context, run, navigated, discarded, failed, exitKind, outcome,
          closeFailed, fileAtExit, faults, sameDepth, lastRun>>

\* state of the prefix analyzer and of the spec generation that calls it
VARIABLES
    har,             \* the HAR file at har_file_path: its status and its log.entries
    target_url,      \* the target_url argument of detect_api_prefix (NoTarget: None)
    apc,             \* position: "off", "start", "detected", "generated", "raised"
    detected_prefix, \* what detect_api_prefix returned
    target_prefix    \* the api_prefix handed to process_to_spec by crawl

avars == <<har, target_url, apc, detected_prefix, target_prefix>>

\* state of an application of APIProber._fill_params
VARIABLES
    path_template,   \* the path argument
    filled,          \* _fill_params(path), once applied
    refilled,        \* _fill_params applied to that result
    fpc              \* position: "off", "start", "filled", "refilled"

fvars == <<path_template, filled, refilled, fpc>>

\* state of the endpoint prober
VARIABLES
    spec_file,       \* the OpenAPI document at APIProber.spec_file
    api_prefix,      \* APIProber.api_prefix
    samples,         \* APIProber.samples
    endpoints,       \* APIProber.endpoints
    ppc,             \* position: "off", "init", "probing", "finished", "exited"
    ei,              \* index of the endpoint the outer loop of probe is at
    si,              \* number of samples the inner loop has attempted for it
    requests         \* history: every client.request attempted, in order

pvars == <<spec_file, api_prefix, samples, endpoints, ppc, ei, si, requests>>

\* state of the one-click pipeline async_main
VARIABLES
    mpc,             \* position inside async_main
    proxy,           \* the mitmdump process: "none", "running", "exited" (on its
                     \* own, seen by poll), "terminated" (after SIGTERM), "dying"
                     \* (SIGKILL sent, still there), "killed"
    sigterm,         \* history: SIGTERM was sent to the proxy's process group
    sigkill,         \* history: SIGKILL was sent to the proxy
    prober_base,     \* history: the api_prefix argument run_prober was called with
    final_prefix,    \* history: the api_prefix argument of the final process_to_spec
    pending,         \* what leaves the try block: "none", "return", "SystemExit", "interrupt"
    exit_status      \* exit status of the process once async_main is over, else -1

mvars == <<mpc, proxy, sigterm, sigkill, prober_base, final_prefix, pending,
           exit_status>>

\* state of handle_forms and of the rest of process_page after it
VARIABLES
    forms,           \* the forms of the page, in document order
    below_max,       \* depth < self.max_depth for the page
    hpc,             \* position: "off", "forms", "inputs", "input", "returned",
                     \* "raised", "done"
    fi,              \* index of the form the loop of line 199 is at
    ii,              \* index of the queried input the loop of line 204 is at
    any_filled,      \* the local variable filled
    fill_calls,      \* history: <<form, input, value>> of every fill() call
    clicks,          \* history: the forms whose submit control was clicked
    fault_at,        \* history: where the last exception was raised: "forms",
                     \* "inputs", "input" (is_visible, get_attribute), "fill",
                     \* "submit", "click"; "none" if nothing raised
    links_run        \* history: extract_links was called for the page

hvars == <<forms, below_max, hpc, fi, ii, any_filled, fill_calls, clicks,
           fault_at, links_run>>

NoFile == [exists |-> FALSE, ok |-> FALSE, visited |-> <<>>, queue |-> <<>>]
\* a checkpoint whose write was cut short: not parseable as JSON
CorruptFile == [exists |-> TRUE, ok |-> FALSE, visited |-> <<>>, queue |-> <<>>]

\* AsyncCrawler.__init__: the derived field self.domain
domain == start_url.netloc

\* faulty variant: the "not in self.visited" test is missing
is_valid_url_ignoresVisited(self_visited, url) ==
    /\ url.netloc = domain
    /\ url.scheme \in {"http", "https"}
    /\ ~ is_static_asset(url.path)

\* AsyncCrawler.is_valid_url, with self.visited = self_visited
is_valid_url(self_visited, url) ==
    /\ url.netloc = domain
    /\ url.scheme \in {"http", "https"}
    /\ url \notin self_visited
    /\ ~ is_static_asset(url.path)

\* AsyncCrawler.extract_links on the page served for url
extract_links(url) == { CleanHref(h) : h \in site[PageOf(url)] }

\* list(self.visited): the elements of the set in its iteration order, which is
\* a function of the set
RECURSIVE SetToList(_)
SetToList(S) ==
    IF S = {} THEN <<>>
    ELSE LET x == CHOOSE y \in S : TRUE IN <<x>> \o SetToList(S \ {x})

\* save_state, lines 38-43: the JSON document written
DumpState == [exists |-> TRUE, ok |-> TRUE, visited |-> SetToList(visited), queue |-> queue]

\* faulty variant: load_state restores the visited set but not the frontier
LoadedQueue_fresh(f) == <<<<start_url, 0>>>>

\* the state run_crawler builds before calling crawl (with resume, load_state)
LoadedVisited(f) == IF f.exists THEN SeqRange(f.visited) ELSE {}

\* faulty variant: the frontier is rebuilt in reverse order
LoadedQueue_reversed(f) ==
    IF f.exists
    THEN [i \in 1..Len(f.queue) |-> <<f.queue[Len(f.queue) + 1 - i][1],
                                      f.queue[Len(f.queue) + 1 - i][2]>>]
    ELSE <<<<start_url, 0>>>>

\* load_state, line 51: deque([(item[0], item[1]) for item in state["queue"]])
LoadedQueue(f) ==
    IF f.exists THEN [i \in 1..Len(f.queue) |-> <<f.queue[i][1], f.queue[i][2]>>]
    ELSE <<<<start_url, 0>>>>

\* faulty variant: cleanup after the loop instead of in a finally block, so an
\* exception leaving the loop skips it
LeaveLoop_noFinally(kind) ==
    /\ pc' = IF kind = "clean" THEN "finally" ELSE "done"
    /\ exitKind' = kind
    /\ fileAtExit' = state_file'

\* the fetch loop is left: control passes to the finally block of crawl
LeaveLoop(kind) ==
    /\ pc' = "finally"
    /\ exitKind' = kind
    /\ fileAtExit' = state_file'

\* ---------------------------------------------------------------- values of the other stages
\* a returned prefix string "scheme://netloc" + path, None, or a raised exception
Str(scheme, netloc, path) ==
    [kind |-> "str", scheme |-> scheme, netloc |-> netloc, path |-> path]
None == [kind |-> "None", scheme |-> "", netloc |-> "", path |-> <<>>]
Raised == [kind |-> "raised", scheme |-> "", netloc |-> "", path |-> <<>>]
\* target_url=None
NoTarget == Url("", "", <<>>)
\* a HAR file that holds a log with the given entries
HarFile(entries) == [status |-> "ok", entries |-> entries]

\* the analyzer is not part of the behaviour
AnalyzerOff ==
    /\ har = HarFile(<<>>)
    /\ target_url = NoTarget
    /\ apc = "off"
    /\ detected_prefix = None
    /\ target_prefix = None

\* no application of _fill_params is part of the behaviour
FillOff ==
    /\ path_template = <<>>
    /\ filled = <<>>
    /\ refilled = <<>>
    /\ fpc = "off"

\* the prober is not part of the behaviour
ProberOff ==
    /\ spec_file = [status |-> "missing", operations |-> <<>>]
    /\ api_prefix = <<>>
    /\ samples = 0
    /\ endpoints = <<>>
    /\ ppc = "off"
    /\ ei = 0
    /\ si = 0
    /\ requests = <<>>

\* the pipeline is not part of the behaviour
MainOff ==
    /\ mpc = "off"
    /\ proxy = "none"
    /\ sigterm = FALSE
    /\ sigkill = FALSE
    /\ prober_base = None
    /\ final_prefix = None
    /\ pending = "none"
    /\ exit_status = -1

\* no page's forms are part of the behaviour
FormsOff ==
    /\ forms = <<>>
    /\ below_max = FALSE
    /\ hpc = "off"
    /\ fi = 0
    /\ ii = 0
    /\ any_filled = FALSE
    /\ fill_calls = {}
    /\ clicks = {}
    /\ fault_at = "none"
    /\ links_run = FALSE

OthersOff == AnalyzerOff /\ FillOff /\ ProberOff /\ MainOff /\ FormsOff
others == <<avars, fvars, pvars, mvars, hvars>>

\* state after AsyncCrawler.__init__ and run_crawler(resume=False)
Init ==
    /\ site \in Sites
    /\ start_url \in StartUrls
    /\ max_depth \in Depths
    /\ visited = {}
    /\ queue = <<<<start_url, 0>>>>
    /\ state_file = NoFile
    /\ pc = "idle"
    /\ cur = <<>>
    /\ context = "none"
    /\ run = 1
    /\ navigated = <<>>
    /\ discarded = {}
    /\ failed = {}
    /\ exitKind = "none"
    /\ outcome = "none"
    /\ closeFailed = FALSE
    /\ fileAtExit = NoFile
    /\ faults = 0
    /\ sameDepth = TRUE
    /\ lastRun = [exit |-> "none", file |-> NoFile]
    /\ OthersOff

\* ---------------------------------------------------------------- crawl
\* crawl, lines 86-104: launch the browser and open the recording context
StartCrawl ==
    /\ pc = "idle"
    /\ context' = "open"
    /\ pc' = "loop"
    /\ UNCHANGED <<site, start_url, max_depth, visited, queue, state_file, cur,
                   run, navigated, discarded, failed, exitKind, outcome,
                   closeFailed, fileAtExit, faults, sameDepth, lastRun>>

\* faulty variant: the visited check of the loop head is missing
AlreadyVisited_never(url) == FALSE

\* crawl, line 110: the dequeued URL was processed before
AlreadyVisited(url) == url \in visited

\* faulty variant: the depth check of the loop head is missing
TooDeep_never(depth) == FALSE

\* crawl, line 113: the dequeued entry lies beyond the depth limit
TooDeep(depth) == depth > max_depth

\* faulty variant: the newest entry is taken, as by deque.pop()
popleft_right(q) == [entry |-> q[Len(q)], rest |-> SubSeq(q, 1, Len(q) - 1)]

\* crawl, line 108: self.queue.popleft(), the entry taken and the entries left
popleft(q) == [entry |-> Head(q), rest |-> Tail(q)]

\* crawl, lines 107-120: one pass of the loop head, up to the first await of
\* process_page (page.goto)
Dequeue ==
    /\ pc = "loop"
    /\ queue # <<>>
    /\ LET e == popleft(queue).entry IN
       /\ queue' = popleft(queue).rest
       /\ IF AlreadyVisited(e[1])
          THEN UNCHANGED <<visited, cur, navigated, discarded, pc>>
          ELSE IF TooDeep(e[2])
          THEN /\ discarded' = discarded \cup {e}
               /\ UNCHANGED <<visited, cur, navigated, pc>>
          ELSE /\ visited' = visited \cup {e[1]}
               /\ cur' = e
               /\ navigated' = Append(navigated, e)
               /\ pc' = "process"
               /\ UNCHANGED discarded
    /\ UNCHANGED <<site, start_url, max_depth, state_file, context, run, failed,
                   exitKind, outcome, closeFailed, fileAtExit, faults,
                   sameDepth, lastRun>>

\* process_page, line 188: the depth a discovered link is enqueued at
ChildDepth(depth) == depth + 1

\* process_page, lines 183-188: the entries appended for the links found
\* (links is a set: "for link in links" runs in some iteration order)
Enqueued(depth, order) ==
    [i \in 1..Len(order) |-> <<order[i], ChildDepth(depth)>>]

\* process_page returns normally; extractOk = FALSE is eval_on_selector_all
\* raising inside extract_links, which then returns the empty set
PageDone(extractOk) ==
    /\ pc = "process"
    /\ LET url == cur[1]
           depth == cur[2]
           links == IF depth < max_depth /\ extractOk THEN extract_links(url) ELSE {}
           valid == { l \in links : is_valid_url(visited, l) }
       IN  \E order \in Perms(valid) : queue' = queue \o Enqueued(depth, order)
    /\ pc' = "save"

PageOk ==
    /\ PageDone(TRUE)
    /\ UNCHANGED <<site, start_url, max_depth, visited, state_file, cur, context,
                   run, navigated, discarded, failed, exitKind, outcome,
                   closeFailed, fileAtExit, faults, sameDepth, lastRun>>

ExtractFail ==
    /\ cur # <<>> /\ cur[2] < max_depth
    /\ PageDone(FALSE)
    /\ faults < MaxFaults
    /\ faults' = faults + 1
    /\ UNCHANGED <<site, start_url, max_depth, visited, state_file, cur, context,
                   run, navigated, discarded, failed, exitKind, outcome,
                   closeFailed, fileAtExit, sameDepth, lastRun>>

\* crawl, lines 119-122: page.goto times out or fails; the exception is caught
NavFail ==
    /\ pc = "process"
    /\ failed' = failed \cup {cur[1]}
    /\ faults < MaxFaults
    /\ faults' = faults + 1
    /\ pc' = "save"
    /\ UNCHANGED <<site, start_url, max_depth, visited, queue, state_file, cur,
                   context, run, navigated, discarded, exitKind, outcome,
                   closeFailed, fileAtExit, sameDepth, lastRun>>

\* CancelledError / KeyboardInterrupt delivered at an await of process_page:
\* not an Exception, so line 121 does not catch it
InterruptProcess ==
    /\ pc = "process"
    /\ UNCHANGED state_file
    /\ LeaveLoop("interrupt")
    /\ UNCHANGED <<site, start_url, max_depth, visited, queue, cur, context,
                   run, navigated, discarded, failed, outcome, closeFailed,
                   faults, sameDepth, lastRun>>

\* save_state, lines 35-43 (state_path is always set by run_crawler)
SaveState ==
    /\ pc = "save"
    /\ state_file' = DumpState
    /\ pc' = "sleep"
    /\ UNCHANGED <<site, start_url, max_depth, visited, queue, cur, context,
                   run, navigated, discarded, failed, exitKind, outcome,
                   closeFailed, fileAtExit, faults, sameDepth, lastRun>>

\* save_state raises OSError: open() failed (file untouched) or the write was
\* cut short after open(..., "w") truncated the file
SaveStateFail ==
    /\ pc = "save"
    /\ state_file' \in {state_file, CorruptFile}
    /\ faults < MaxFaults
    /\ faults' = faults + 1
    /\ LeaveLoop("error")
    /\ UNCHANGED <<site, start_url, max_depth, visited, queue, cur, context,
                   run, navigated, discarded, failed, outcome, closeFailed,
                   sameDepth, lastRun>>

\* crawl, line 128: the politeness delay elapses
Sleep ==
    /\ pc = "sleep"
    /\ pc' = "loop"
    /\ cur' = <<>>
    /\ UNCHANGED <<site, start_url, max_depth, visited, queue, state_file,
                   context, run, navigated, discarded, failed, exitKind, outcome,
                   closeFailed, fileAtExit, faults, sameDepth, lastRun>>

\* CancelledError / KeyboardInterrupt delivered during asyncio.sleep
InterruptSleep ==
    /\ pc = "sleep"
    /\ UNCHANGED state_file
    /\ LeaveLoop("interrupt")
    /\ UNCHANGED <<site, start_url, max_depth, visited, queue, cur, context,
                   run, navigated, discarded, failed, outcome, closeFailed,
                   faults, sameDepth, lastRun>>

\* crawl, lines 107 and 130: the frontier is empty, the loop ends
LoopExit ==
    /\ pc = "loop"
    /\ queue = <<>>
    /\ UNCHANGED state_file
    /\ LeaveLoop("clean")
    /\ UNCHANGED <<site, start_url, max_depth, visited, queue, cur, context,
                   run, navigated, discarded, failed, outcome, closeFailed,
                   faults, sameDepth, lastRun>>

\* crawl, line 142: the checkpoint is removed when the frontier is empty
CleanupUnlinks == queue = <<>> /\ state_file.exists

\* crawl, lines 132-144: the finally block, context.close() succeeding; the
\* exception that left the loop, if any, is re-raised after it
Finally ==
    /\ pc = "finally"
    /\ context' = "closed"
    /\ state_file' = IF CleanupUnlinks THEN NoFile ELSE state_file
    /\ outcome' = IF exitKind = "clean" THEN "returned" ELSE "raised"
    /\ pc' = "done"
    /\ UNCHANGED <<site, start_url, max_depth, visited, queue, cur, run,
                   navigated, discarded, failed, exitKind, closeFailed,
                   fileAtExit, faults, sameDepth, lastRun>>

\* crawl, line 135: context.close() raises; the rest of the finally block is
\* skipped and crawl raises
FinallyCloseFail ==
    /\ pc = "finally"
    /\ closeFailed' = TRUE
    /\ faults < MaxFaults
    /\ faults' = faults + 1
    /\ outcome' = "raised"
    /\ pc' = "done"
    /\ UNCHANGED <<site, start_url, max_depth, visited, queue, state_file, cur,
                   context, run, navigated, discarded, failed, exitKind,
                   fileAtExit, sameDepth, lastRun>>

\* the --depth values a resumed run is started with: the same depth, or one
\* level less
ResumeDepths == {max_depth, max_depth - 1} \cap Depths

\* run_crawler, lines 277-286, with resume=True: a new AsyncCrawler, then
\* load_state (lines 45-54) on the same checkpoint path, after a run that did
\* not complete; json.load raises on a file that is not valid JSON
Resume ==
    /\ pc = "done"
    /\ outcome = "raised"
    /\ run < MaxRuns
    /\ run' = run + 1
    /\ \E d \in ResumeDepths :
         /\ max_depth' = d
         /\ sameDepth' = (sameDepth /\ d = max_depth)
    /\ lastRun' = [exit |-> exitKind, file |-> fileAtExit]
    /\ IF state_file.exists /\ ~ state_file.ok
       THEN /\ pc' = "crashed"
            /\ visited' = {}
            /\ queue' = <<<<start_url, 0>>>>
       ELSE /\ pc' = "idle"
            /\ visited' = LoadedVisited(state_file)
            /\ queue' = LoadedQueue(state_file)
    /\ cur' = <<>>
    /\ context' = "none"
    /\ navigated' = <<>>
    /\ discarded' = {}
    /\ failed' = {}
    /\ exitKind' = "none"
    /\ outcome' = "none"
    /\ closeFailed' = FALSE
    /\ fileAtExit' = NoFile
    /\ UNCHANGED <<site, start_url, state_file, faults>>

\* the crawler's steps; the other stages do not move
Next ==
    \/ StartCrawl /\ UNCHANGED others
    \/ Dequeue /\ UNCHANGED others
    \/ PageOk /\ UNCHANGED others
    \/ ExtractFail /\ UNCHANGED others
    \/ NavFail /\ UNCHANGED others
    \/ InterruptProcess /\ UNCHANGED others
    \/ SaveState /\ UNCHANGED others
    \/ SaveStateFail /\ UNCHANGED others
    \/ Sleep /\ UNCHANGED others
    \/ InterruptSleep /\ UNCHANGED others
    \/ LoopExit /\ UNCHANGED others
    \/ Finally /\ UNCHANGED others
    \/ FinallyCloseFail /\ UNCHANGED others
    \/ Resume /\ UNCHANGED others

Spec == Init /\ [][Next]_vars

\* the crawler is not part of the behaviour
CrawlerOff ==
    /\ site = SiteFlow
    /\ start_url = Root
    /\ max_depth = 0
    /\ visited = {}
    /\ queue = <<>>
    /\ state_file = NoFile
    /\ pc = "off"
    /\ cur = <<>>
    /\ context = "none"
    /\ run = 0
    /\ navigated = <<>>
    /\ discarded = {}
    /\ failed = {}
    /\ exitKind = "none"
    /\ outcome = "none"
    /\ closeFailed = FALSE
    /\ fileAtExit = NoFile
    /\ faults = 0
    /\ sameDepth = TRUE
    /\ lastRun = [exit |-> "none", file |-> NoFile]

TypeOK ==
    /\ pc \in {"idle", "loop", "process", "save", "sleep", "finally", "done", "crashed"}
    /\ context \in {"none", "open", "closed"}
    /\ run \in 1..MaxRuns

\* ---------------------------------------------------------------- reference runs
\* crawl, lines 107-128 with process_page, run to the end with no interrupt and
\* no failure from the given visited set and frontier: the final visited set
RECURSIVE CrawlToEnd(_, _, _)
CrawlToEnd(vis, q, maxd) ==
    IF q = <<>> THEN vis
    ELSE LET e == Head(q) IN
         IF e[1] \in vis \/ e[2] > maxd
         THEN CrawlToEnd(vis, Tail(q), maxd)
         ELSE LET vis2  == vis \cup {e[1]}
                  links == IF e[2] < maxd THEN extract_links(e[1]) ELSE {}
                  valid == { l \in links : is_valid_url(vis2, l) }
              IN  CrawlToEnd(vis2, Tail(q) \o Enqueued(e[2], SetToList(valid)), maxd)

\* the visited set of one uninterrupted crawl of the site
UninterruptedVisited == CrawlToEnd({}, <<<<start_url, 0>>>>, max_depth)

\* number of frontier entries for a URL
CountInQueue(q, url) == Cardinality({ i \in DOMAIN q : q[i][1] = url })

\* the URLs of the page.goto calls of this run
NavigatedUrls == { navigated[i][1] : i \in DOMAIN navigated }

\* ---------------------------------------------------------------- prefix analyzer
\* Model of src/src/scanner/analyzer.py.  A request path is a sequence of
\* tokens: "/" is the separator, any other token is a piece of text without
\* "/".  A path segment is again a sequence of tokens (empty for "").

\* length of the longest traffic log tried
MaxEntries == 3

\* threshold = 0.6, in tenths
threshold == 6

\* the api_content_types list
api_content_types ==
    { <<"a","p","p","l","i","c","a","t","i","o","n","/","j","s","o","n">>,
      <<"a","p","p","l","i","c","a","t","i","o","n","/","x","m","l">>,
      <<"t","e","x","t","/","x","m","l">>,
      <<"a","p","p","l","i","c","a","t","i","o","n","/","h","a","l","+","j","s","o","n">>,
      <<"a","p","p","l","i","c","a","t","i","o","n","/","v","n","d",".","a","p","i","+","j","s","o","n">>,
      <<"t","e","x","t","/","h","t","m","l">>,
      <<"a","p","p","l","i","c","a","t","i","o","n","/","x","-","w","w","w","-","f","o","r","m","-","u","r","l","e","n","c","o","d","e","d">>,
      <<"m","u","l","t","i","p","a","r","t","/","f","o","r","m","-","d","a","t","a">>,
      <<"t","e","x","t","/","p","l","a","i","n">> }

\* content types met in the logs
mimeJson == <<"a","p","p","l","i","c","a","t","i","o","n","/","j","s","o","n">>
mimeJsonCharset == <<"A","p","p","l","i","c","a","t","i","o","n","/","J","S","O","N",";"," ","c","h","a","r","s","e","t","=","u","t","f","-","8">>
mimeHtml == <<"t","e","x","t","/","h","t","m","l">>
mimeForm == <<"a","p","p","l","i","c","a","t","i","o","n","/","x","-","w","w","w","-","f","o","r","m","-","u","r","l","e","n","c","o","d","e","d">>
mimePng == <<"i","m","a","g","e","/","p","n","g">>

\* a log entry: the request URL and response.content.mimeType
Entry(scheme, netloc, path, mimeType) ==
    [url |-> Url(scheme, netloc, path), mimeType |-> mimeType]

\* entries after the test_analyzer.py fixtures
eUsers     == Entry("https", "api.example.com", <<"/","v1","/","users">>, mimeJson)
ePosts     == Entry("https", "api.example.com", <<"/","v1","/","posts">>, mimeJsonCharset)
eLogin     == Entry("https", "legacy-app.com", <<"/","auth","/","login">>, mimeHtml)
eRegister  == Entry("https", "legacy-app.com", <<"/","auth","/","register">>, mimeForm)
eHttpUsers == Entry("http", "api.example.com", <<"/","v1","/","users","/">>, mimeJson)
eRoot      == Entry("https", "api.example.com", <<"/">>, mimeJson)
eLogo      == Entry("https", "legacy-app.com", <<"/","logo.png">>, mimePng)

Entries == {eUsers, ePosts, eLogin, eRegister, eHttpUsers, eRoot, eLogo}

\* the branching paths of the comment of lines 118-124
eApiV1 == Entry("https", "api.example.com", <<"/","api","/","v1">>, mimeJson)
eApiV2 == Entry("https", "api.example.com", <<"/","api","/","v2">>, mimeJson)
eAuth  == Entry("https", "api.example.com", <<"/","auth">>, mimeJson)
\* an API response from a third host
eCdn   == Entry("https", "cdn.example.com", <<"/","v1","/","users">>, mimeJson)

\* the content types of those entries
MimeTypes == { e.mimeType : e \in Entries }

\* the Python test "t in s" on strings
Contains(s, t) ==
    \E i \in 0..(Len(s) - Len(t)) : SubSeq(s, i + 1, i + Len(t)) = t

\* faulty variant: every entry counts as API traffic
is_api_any(mimeType) == TRUE

\* is_api, with mime_type = mimeType.lower()
is_api(mimeType) ==
    LET mime_type == Lower(mimeType)
    IN  \E t \in api_content_types : Contains(mime_type, t)

\* is_api tabulated over the content types of the entries
is_api_of == [m \in MimeTypes |-> is_api(m)]

\* api_urls: the request URLs of the entries with an API content type, in order
api_urls(entries) ==
    LET api == SelectSeq(entries, LAMBDA e : is_api_of[e.mimeType])
    IN  [i \in 1..Len(api) |-> api[i].url]

\* faulty variant: the hint is ignored
FilterByTarget_unfiltered(urls, target) == urls

\* faulty variant: no fall back when the hint matches nothing
FilterByTarget_noFallback(urls, target) ==
    IF target.netloc # ""
    THEN SelectSeq(urls, LAMBDA u : u.netloc = target.netloc)
    ELSE urls

\* lines 59-68: keep the URLs of the target's netloc, or all when none match
FilterByTarget(urls, target) ==
    LET target_netloc == target.netloc
        filtered == SelectSeq(urls, LAMBDA u : u.netloc = target_netloc)
    IN  IF target_netloc # "" /\ filtered # <<>> THEN filtered ELSE urls

\* number of occurrences of x in the list
Count(list, x) == Cardinality({ i \in 1..Len(list) : list[i] = x })

\* faulty variant: the first element is taken for the most common one
most_common_first(list) == list[1]

\* statistics.mode(list) and Counter(list).most_common(1)[0][0] for a
\* non-empty list: the value with the highest count, the one met first on ties
most_common(list) ==
    LET best == CHOOSE i \in 1..Len(list) :
                    /\ \A j \in 1..Len(list) : Count(list, list[j]) <= Count(list, list[i])
                    /\ \A j \in 1..(i - 1) : Count(list, list[j]) < Count(list, list[i])
    IN  list[best]

\* faulty variant: the path is split without stripping its slashes
Strip_none(s) == s

\* str.strip("/")
Strip(s) ==
    LET keep == { i \in 1..Len(s) : s[i] # "/" }
    IN  IF keep = {} THEN <<>>
        ELSE SubSeq(s, CHOOSE i \in keep : \A j \in keep : i <= j,
                       CHOOSE i \in keep : \A j \in keep : j <= i)

\* str.split("/"): "" gives [""]
RECURSIVE Split(_)
Split(s) ==
    LET seps == { i \in 1..Len(s) : s[i] = "/" }
    IN  IF seps = {} THEN << s >>
        ELSE LET i == CHOOSE k \in seps : \A j \in seps : k <= j
             IN  << SubSeq(s, 1, i - 1) >> \o Split(SubSeq(s, i + 1, Len(s)))

\* "/".join(segments)
RECURSIVE Join(_)
Join(segments) ==
    IF segments = <<>> THEN <<>>
    ELSE IF Len(segments) = 1 THEN segments[1]
    ELSE segments[1] \o <<"/">> \o Join(Tail(segments))

\* faulty variant: a segment is accepted when its share is at most the threshold
Accepted_inverted(count, total_apis, thr) == count * 10 <= thr * total_apis

\* count / total_apis >= threshold, the threshold given in tenths
Accepted(count, total_apis, thr) == count * 10 >= thr * total_apis

\* faulty variant: the share is taken of the paths still alive
NextTotal_narrowed(total_apis, narrowed) == Len(narrowed)

\* lines 115-124: total_apis is not updated when the lists are narrowed
NextTotal(total_apis, narrowed) == total_apis

\* lines 101-126: the segment walk from level i on; total_apis = len(paths)
RECURSIVE Walk(_, _, _, _)
Walk(current_level_lists, i, total_apis, thr) ==
    LET alive == SelectSeq(current_level_lists, LAMBDA s : Len(s) > i)
        segments_at_i == [k \in 1..Len(alive) |-> alive[k][i + 1]]
    IN  IF segments_at_i = <<>> THEN <<>>
        ELSE LET most_common_seg == most_common(segments_at_i)
                 count == Count(segments_at_i, most_common_seg)
             IN  IF Accepted(count, total_apis, thr)
                 THEN LET narrowed == SelectSeq(alive, LAMBDA s :
                                              s[i + 1] = most_common_seg)
                      IN  << most_common_seg >> \o
                          Walk(narrowed, i + 1, NextTotal(total_apis, narrowed), thr)
                 ELSE <<>>

\* lines 86-126: common_segments of the paths under the given threshold
common_segments(paths, thr) ==
    Walk([k \in 1..Len(paths) |-> Split(Strip(paths[k]))], 0, Len(paths), thr)

\* faulty variant: the read error escapes detect_api_prefix
HarUnreadable_raises(har_file) == Raised

\* lines 16-18: a HAR file that cannot be opened or parsed is reported and
\* None is returned
HarUnreadable(har_file) == None

\* lines 70-77: common_scheme and common_netloc, each the mode of its own list
common_base(parsed_urls) ==
    [scheme |-> most_common([k \in 1..Len(parsed_urls) |-> parsed_urls[k].scheme]),
     netloc |-> most_common([k \in 1..Len(parsed_urls) |-> parsed_urls[k].netloc])]

\* line 81: the paths of the URLs that have the common scheme and netloc
base_paths(parsed_urls) ==
    LET base == common_base(parsed_urls)
        matching == SelectSeq(parsed_urls, LAMBDA u :
                        u.netloc = base.netloc /\ u.scheme = base.scheme)
    IN  [k \in 1..Len(matching) |-> matching[k].path]

\* lines 59-129 of detect_api_prefix, for a non-empty api_urls list
PrefixOf(urls, target) ==
    LET parsed_urls == FilterByTarget(urls, target)
    IN  IF parsed_urls = <<>> THEN Raised   \* statistics.mode of no data
        ELSE
        LET base == common_base(parsed_urls)
            paths == base_paths(parsed_urls)
            prefix_path == Join(common_segments(paths, threshold))
        IN  IF paths = <<>> THEN Str(base.scheme, base.netloc, <<>>)
            ELSE IF prefix_path # <<>>
                 THEN Str(base.scheme, base.netloc, <<"/">> \o prefix_path)
                 ELSE Str(base.scheme, base.netloc, <<>>)

\* detect_api_prefix(har_file_path, target_url)
detect_api_prefix(har_file, target) ==
    IF har_file.status # "ok" THEN HarUnreadable(har_file)
    ELSE IF har_file.entries = <<>> THEN None
    ELSE IF api_urls(har_file.entries) = <<>> THEN None
    ELSE PrefixOf(api_urls(har_file.entries), target)

\* all sequences over S of length at most n
SeqsUpTo(S, n) == UNION { [1..k -> S] : k \in 0..n }

\* logs tried beside the short ones: the branching paths with shares of 40%,
\* 40% and 20%, and of 50%, 25% and 25%, and three hosts over two schemes
ScenarioLogs ==
    { <<eApiV1, eApiV1, eApiV2, eApiV2, eAuth>>,
      <<eApiV1, eApiV1, eApiV2, eAuth>>,
      <<eHttpUsers, eLogin, eCdn>> }

Logs == SeqsUpTo(Entries, MaxEntries) \cup ScenarioLogs

\* the HAR files tried: every log, a missing file, a file that is not JSON
Hars == { HarFile(l) : l \in Logs } \cup
        { [status |-> "missing", entries |-> <<>>],
          [status |-> "unparseable", entries |-> <<>>] }

\* the target_url arguments tried
Targets == { NoTarget,
             Url("https", "api.example.com", <<"/","app">>),
             Url("https", "missing.com", <<>>) }

\* AsyncCrawler.root_url for a start URL
root_url(start) == Str(start.scheme, start.netloc, <<>>)

\* a direct call detect_api_prefix(har_file_path, target_url)
DetectApiPrefix ==
    /\ apc = "start"
    /\ detected_prefix' = detect_api_prefix(har, target_url)
    /\ apc' = IF detected_prefix'.kind = "raised" THEN "raised" ELSE "detected"
    /\ UNCHANGED <<har, target_url, target_prefix>>

\* crawl, lines 149-174: the spec generation at the end of a crawl whose
\* start URL is target_url; process_to_spec succeeds or raises, and cannot
\* succeed on a HAR file that cannot be read
GenerateSpec ==
    /\ apc = "start"
    /\ target_url # NoTarget
    /\ detected_prefix' = detect_api_prefix(har, target_url)
    /\ IF detected_prefix'.kind = "raised"
       THEN /\ apc' = "raised"
            /\ UNCHANGED target_prefix
       ELSE /\ target_prefix' = IF detected_prefix'.kind = "str"
                                THEN detected_prefix'
                                ELSE root_url(target_url)
            /\ \E ok \in BOOLEAN :
                 /\ ok => har.status = "ok"
                 /\ apc' = IF ok THEN "generated" ELSE "generate_failed"
    /\ UNCHANGED <<har, target_url>>

AnalyzerInit ==
    /\ har \in Hars
    /\ target_url \in Targets
    /\ apc = "start"
    /\ detected_prefix = None
    /\ target_prefix = None
    /\ CrawlerOff /\ FillOff /\ ProberOff /\ MainOff /\ FormsOff

AnalyzerNext ==
    \/ DetectApiPrefix /\ UNCHANGED <<vars, fvars, pvars, mvars, hvars>>
    \/ GenerateSpec /\ UNCHANGED <<vars, fvars, pvars, mvars, hvars>>

SpecAnalyzer == AnalyzerInit /\ [][AnalyzerNext]_avars

\* ---------------------------------------------------------------- endpoint prober
\* Model of src/src/scanner/prober.py.  A path template and a URL are
\* sequences of tokens: "/", "{" and "}" are single characters, any other
\* token is a piece of text without them.

\* length of the longest path template tried exhaustively
MaxTemplateLen == 6
\* largest --samples value tried
MaxSamples == 2
\* largest number of operations in a spec document
MaxOperations == 2

\* faulty variant: only the first placeholder is replaced
RECURSIVE fill_params_first(_)
fill_params_first(path) ==
    IF path = <<>> THEN <<>>
    ELSE LET close == { j \in 2..Len(path) : path[j] = "}" }
             first == CHOOSE j \in close : \A k \in close : j <= k
         IN  IF path[1] = "{" /\ close # {} /\ first >= 3
             THEN <<"1">> \o SubSeq(path, first + 1, Len(path))
             ELSE << path[1] >> \o fill_params_first(Tail(path))

\* APIProber._fill_params: re.sub(r"\{[^}]+\}", "1", path).  Scanning from the
\* left, a "{" followed by at least one token other than "}" and then a "}"
\* is replaced, up to the first "}", by "1"
RECURSIVE fill_params(_)
fill_params(path) ==
    IF path = <<>> THEN <<>>
    ELSE LET close == { j \in 2..Len(path) : path[j] = "}" }
             first == CHOOSE j \in close : \A k \in close : j <= k
         IN  IF path[1] = "{" /\ close # {} /\ first >= 3
             THEN <<"1">> \o fill_params(SubSeq(path, first + 1, Len(path)))
             ELSE << path[1] >> \o fill_params(Tail(path))

\* the templates of test_fill_params
TestTemplates ==
    { <<"/","users","/","{","id","}">>,
      <<"/","items","/","{","itemId","}","/","details">> }

\* the path templates tried: the test ones and every short string of
\* separators, braces and text
Templates == SeqsUpTo({"/", "{", "}", "x"}, MaxTemplateLen) \cup TestTemplates

\* _fill_params(path)
FillParams ==
    /\ fpc = "start"
    /\ filled' = fill_params(path_template)
    /\ fpc' = "filled"
    /\ UNCHANGED <<path_template, refilled>>

\* _fill_params applied to the result of _fill_params
FillParamsAgain ==
    /\ fpc = "filled"
    /\ refilled' = fill_params(filled)
    /\ fpc' = "refilled"
    /\ UNCHANGED <<path_template, filled>>

FillInit ==
    /\ path_template \in Templates
    /\ filled = <<>>
    /\ refilled = <<>>
    /\ fpc = "start"
    /\ CrawlerOff /\ AnalyzerOff /\ ProberOff /\ MainOff /\ FormsOff

FillNext ==
    \/ FillParams /\ UNCHANGED <<vars, avars, pvars, mvars, hvars>>
    \/ FillParamsAgain /\ UNCHANGED <<vars, avars, pvars, mvars, hvars>>

SpecFill == FillInit /\ [][FillNext]_fvars

\* str.upper() on one character
UpperChar(c) ==
    IF \E i \in 1..Len(LowerAlpha) : LowerAlpha[i] = c
    THEN UpperAlpha[CHOOSE i \in 1..Len(LowerAlpha) : LowerAlpha[i] = c]
    ELSE c

\* str.upper()
Upper(s) == [i \in 1..Len(s) |-> UpperChar(s[i])]

\* str.rstrip("/")
RStrip(s) ==
    LET keep == { i \in 1..Len(s) : s[i] # "/" }
    IN  IF keep = {} THEN <<>>
        ELSE SubSeq(s, 1, CHOOSE i \in keep : \A j \in keep : j <= i)

\* the method keys load_spec turns into endpoints
probed_methods ==
    { <<"g","e","t">>, <<"p","o","s","t">>, <<"p","u","t">>,
      <<"d","e","l","e","t","e">>, <<"p","a","t","c","h">> }

\* an operation of a spec document: a path and a key of its path item
Operation(path, method) == [path |-> path, method |-> method]
\* the operations after the spec_file fixture of test_prober.py, and one
\* whose key is not a probed method
opGetUser == Operation(<<"/","users","/","{","id","}">>, <<"g","e","t">>)
opLogin   == Operation(<<"/","login">>, <<"P","o","s","t">>)
opOptions == Operation(<<"/","login">>, <<"o","p","t","i","o","n","s">>)
Operations == {opGetUser, opLogin, opOptions}

\* the spec documents tried: every list of distinct operations, a missing
\* file, a file that is not YAML
SpecFiles ==
    { [status |-> "ok", operations |-> ops] :
        ops \in { o \in SeqsUpTo(Operations, MaxOperations) :
                    \A i, j \in 1..Len(o) : o[i] = o[j] => i = j } } \cup
    { [status |-> "missing", operations |-> <<>>],
      [status |-> "unparseable", operations |-> <<>>] }

\* the api_prefix arguments tried
PrefixArgs == { <<"http://api.test.com","/","v1">>, <<"http://test.com","/">> }

\* load_spec, lines 35-41: the endpoints of a readable document
LoadedEndpoints(operations) ==
    LET kept == SelectSeq(operations, LAMBDA o : Lower(o.method) \in probed_methods)
    IN  [i \in 1..Len(kept) |-> [path |-> kept[i].path, method |-> Upper(kept[i].method)]]

\* what a client.request attempt can end in: a response with a 2xx status, a
\* response with another status, an exception (network error, timeout)
Outcomes == {"2xx", "non2xx", "exception"}

\* faulty variant: an exception ends the samples of the endpoint
AfterAttempt_abortOnError(result, i) == IF result = "exception" THEN samples ELSE i + 1

\* lines 90-98: the sample loop goes on to its next iteration whatever the
\* attempt ended in (an exception is caught and printed)
AfterAttempt(result, i) == i + 1

\* probe, lines 60-61, with load_spec: the endpoints are loaded; a document
\* that is missing or cannot be parsed ends the process with sys.exit(1)
LoadSpec ==
    /\ ppc = "init"
    /\ IF spec_file.status = "ok"
       THEN /\ endpoints' = endpoints \o LoadedEndpoints(spec_file.operations)
            /\ ppc' = "probing"
            /\ ei' = 1
       ELSE /\ ppc' = "exited"
            /\ UNCHANGED <<endpoints, ei>>
    /\ UNCHANGED <<spec_file, api_prefix, samples, si, requests>>

\* lines 90-98: one iteration of the sample loop for the endpoint at ei
Request ==
    /\ ppc = "probing"
    /\ ei <= Len(endpoints)
    /\ si < samples
    /\ \E result \in Outcomes :
         /\ requests' = Append(requests,
                [ep |-> ei,
                 method |-> endpoints[ei].method,
                 url |-> api_prefix \o fill_params(endpoints[ei].path),
                 outcome |-> result])
         /\ si' = AfterAttempt(result, si)
    /\ UNCHANGED <<spec_file, api_prefix, samples, endpoints, ppc, ei>>

\* line 80: the sample loop of an endpoint is over, on to the next endpoint
NextEndpoint ==
    /\ ppc = "probing"
    /\ ei <= Len(endpoints)
    /\ si >= samples
    /\ ei' = ei + 1
    /\ si' = 0
    /\ UNCHANGED <<spec_file, api_prefix, samples, endpoints, ppc, requests>>

\* line 100: every endpoint is done
ProbeFinished ==
    /\ ppc = "probing"
    /\ ei > Len(endpoints)
    /\ ppc' = "finished"
    /\ UNCHANGED <<spec_file, api_prefix, samples, endpoints, ei, si, requests>>

\* state after APIProber.__init__ as run_prober calls it
ProberInit ==
    /\ spec_file \in SpecFiles
    /\ api_prefix \in { RStrip(a) : a \in PrefixArgs }
    /\ samples \in 0..MaxSamples
    /\ endpoints = <<>>
    /\ ppc = "init"
    /\ ei = 0
    /\ si = 0
    /\ requests = <<>>
    /\ CrawlerOff /\ AnalyzerOff /\ FillOff /\ MainOff /\ FormsOff

ProberNext ==
    \/ LoadSpec /\ UNCHANGED <<vars, avars, fvars, mvars, hvars>>
    \/ Request /\ UNCHANGED <<vars, avars, fvars, mvars, hvars>>
    \/ NextEndpoint /\ UNCHANGED <<vars, avars, fvars, mvars, hvars>>
    \/ ProbeFinished /\ UNCHANGED <<vars, avars, fvars, mvars, hvars>>

SpecProber == ProberInit /\ [][ProberNext]_pvars

\* ---------------------------------------------------------------- one-click pipeline
\* Model of async_main in src/src/scanner/main.py.  har is the traffic log the
\* crawl records and target_url is args.url.

\* a URL given as a string
UrlStr(u) == Str(u.scheme, u.netloc, u.path)

\* the traffic logs a crawl may leave behind
CrawlHars ==
    { HarFile(<<>>), HarFile(<<eRoot>>), HarFile(<<eUsers, ePosts>>),
      HarFile(<<eLogo, eUsers>>), HarFile(<<eLogin, eRegister>>),
      [status |-> "missing", entries |-> <<>>] }

\* Step 1, line 51: run_crawler(args.url, ..., args.initial_spec) returns; the
\* crawl has ended with its spec generation
Crawl ==
    /\ mpc = "start"
    /\ GenerateSpec
    /\ mpc' = "crawled"
    /\ UNCHANGED <<proxy, sigterm, sigkill, prober_base, final_prefix, pending,
                   exit_status>>

\* Step 1, line 51: run_crawler raises and async_main ends with it
CrawlRaises ==
    /\ mpc = "start"
    /\ mpc' = "done"
    /\ exit_status' = 1
    /\ UNCHANGED <<proxy, sigterm, sigkill, prober_base, final_prefix, pending,
                   avars>>

\* Step 2, line 58: mitmdump is started; it runs, or it exits at once
StartProxy ==
    /\ mpc = "crawled"
    /\ proxy' \in {"running", "exited"}
    /\ mpc' = "waiting"
    /\ UNCHANGED <<sigterm, sigkill, prober_base, final_prefix, pending,
                   exit_status, avars>>

\* lines 63-67: after the start delay, return when the proxy has exited
CheckProxy ==
    /\ mpc = "waiting"
    /\ IF proxy = "exited"
       THEN mpc' = "stopping" /\ pending' = "return"
       ELSE mpc' = "probing" /\ UNCHANGED pending
    /\ UNCHANGED <<proxy, sigterm, sigkill, prober_base, final_prefix,
                   exit_status, avars>>

\* Step 3, line 70: run_prober(args.initial_spec, args.url, proxy_url); it
\* returns, ends in sys.exit(1) when the initial spec cannot be loaded, or is
\* interrupted
Probe ==
    /\ mpc = "probing"
    /\ prober_base' = UrlStr(target_url)
    /\ \E out \in {"none", "SystemExit", "interrupt"} :
         /\ out = "SystemExit" => apc # "generated"
         /\ pending' = out
    /\ mpc' = "stopping"
    /\ UNCHANGED <<proxy, sigterm, sigkill, final_prefix, exit_status, avars>>

\* line 74: os.getpgid(process.pid) finds the process; it raises
\* ProcessLookupError for a process that poll() has already reaped
HasProcessGroup(p) == p # "exited"

\* lines 72-75: the finally block begins, on whatever left the try block;
\* os.killpg(os.getpgid(process.pid), signal.SIGTERM)
SignalProxy ==
    /\ mpc = "stopping"
    /\ IF HasProcessGroup(proxy)
       THEN sigterm' = TRUE /\ mpc' = "grace"
       ELSE UNCHANGED sigterm /\ mpc' = "escalate"
    /\ UNCHANGED <<proxy, sigkill, prober_base, final_prefix, pending,
                   exit_status, avars>>

\* line 76: process.wait(timeout=5) returns when the proxy exits in time, and
\* raises TimeoutExpired, an Exception, when it does not
GraceWait ==
    /\ mpc = "grace"
    /\ \/ proxy' = "terminated" /\ mpc' = "stopped"
       \/ UNCHANGED proxy /\ mpc' = "escalate"
    /\ UNCHANGED <<sigterm, sigkill, prober_base, final_prefix, pending,
                   exit_status, avars>>

\* faulty variant: the escalation sends nothing
KillSends_never(p) == FALSE

\* Popen.kill sends nothing to a process whose return code is known
KillSends(p) == p = "running"

\* lines 77-81: the except branch; process.kill() sends SIGKILL and returns
\* without waiting for the process to go
KillProxy ==
    /\ mpc = "escalate"
    /\ IF KillSends(proxy)
       THEN sigkill' = TRUE /\ proxy' = "dying"
       ELSE UNCHANGED <<sigkill, proxy>>
    /\ mpc' = "stopped"
    /\ UNCHANGED <<sigterm, prober_base, final_prefix, pending, exit_status,
                   avars>>

\* the proxy goes away some time after SIGKILL was sent
ProxyDies ==
    /\ proxy = "dying"
    /\ proxy' = "killed"
    /\ UNCHANGED <<mpc, sigterm, sigkill, prober_base, final_prefix, pending,
                   exit_status, avars>>

\* the exit status a pending return or exception gives the process: a return
\* from async_main ends main normally, SystemExit(1) and an interrupt do not
ExitStatusOf(p) == IF p = "return" THEN 0 ELSE 1

\* line 82 and the end of the finally block: Step 4 follows when nothing is
\* pending, else the pending return or exception ends async_main
AfterStop ==
    /\ mpc = "stopped"
    /\ IF pending = "none"
       THEN mpc' = "step4" /\ UNCHANGED exit_status
       ELSE mpc' = "done" /\ exit_status' = ExitStatusOf(pending)
    /\ UNCHANGED <<proxy, sigterm, sigkill, prober_base, final_prefix, pending,
                   avars>>

\* Step 4, lines 84-95: process_to_spec(..., api_prefix=args.url, ...); an
\* exception it raises is caught and printed
FinalSpec ==
    /\ mpc = "step4"
    /\ final_prefix' = UrlStr(target_url)
    /\ mpc' = "done"
    /\ exit_status' = 0
    /\ UNCHANGED <<proxy, sigterm, sigkill, prober_base, pending, avars>>

MainInit ==
    /\ har \in CrawlHars
    /\ target_url \in Targets \ {NoTarget}
    /\ apc = "start"
    /\ detected_prefix = None
    /\ target_prefix = None
    /\ mpc = "start"
    /\ proxy = "none"
    /\ sigterm = FALSE
    /\ sigkill = FALSE
    /\ prober_base = None
    /\ final_prefix = None
    /\ pending = "none"
    /\ exit_status = -1
    /\ CrawlerOff /\ FillOff /\ ProberOff /\ FormsOff

MainNext ==
    \/ Crawl /\ UNCHANGED <<vars, fvars, pvars, hvars>>
    \/ CrawlRaises /\ UNCHANGED <<vars, fvars, pvars, hvars>>
    \/ StartProxy /\ UNCHANGED <<vars, fvars, pvars, hvars>>
    \/ CheckProxy /\ UNCHANGED <<vars, fvars, pvars, hvars>>
    \/ Probe /\ UNCHANGED <<vars, fvars, pvars, hvars>>
    \/ SignalProxy /\ UNCHANGED <<vars, fvars, pvars, hvars>>
    \/ GraceWait /\ UNCHANGED <<vars, fvars, pvars, hvars>>
    \/ KillProxy /\ UNCHANGED <<vars, fvars, pvars, hvars>>
    \/ ProxyDies /\ UNCHANGED <<vars, fvars, pvars, hvars>>
    \/ AfterStop /\ UNCHANGED <<vars, fvars, pvars, hvars>>
    \/ FinalSpec /\ UNCHANGED <<vars, fvars, pvars, hvars>>

SpecMain == MainInit /\ [][MainNext]_<<avars, mvars>>

\* ---------------------------------------------------------------- form handling
\* Model of process_page in src/src/scanner/crawler.py from the return of
\* page.goto on: handle_forms on the forms of the page, then link extraction.

\* number of input elements in a form drawn freely
MaxInputs == 2

\* the literal 'email' of line 217
email == <<"e","m","a","i","l">>

\* an <input> or <textarea>: its type attribute ("" when it has none), its name
\* attribute and what is_visible() answers
Input(type_attr, name_attr, is_visible) ==
    [type |-> type_attr, name |-> name_attr, visible |-> is_visible]

iPassword == Input("password", <<"p","w">>, TRUE)
iUserEmail == Input("text", <<"U","s","e","r","E","m","a","i","l">>, TRUE)
\* the input of test_crawl_form_detection
iUsername == Input("text", <<"u","s","e","r","n","a","m","e">>, TRUE)
iTel == Input("tel", <<"p","h","o","n","e">>, TRUE)

\* the inputs tried: those above, a password input with an email name, an
\* email input, a textarea (no type), search and url inputs, a tel input
\* with an email name, an invisible text input and a hidden input
Inputs ==
    { iPassword, iUserEmail, iUsername, iTel,
      Input("password", <<"e","m","a","i","l","_","p","w">>, TRUE),
      Input("email", <<"c","o","n","t","a","c","t">>, TRUE),
      Input("", <<"c","o","m","m","e","n","t">>, TRUE),
      Input("search", <<"q">>, TRUE),
      Input("url", <<"s","i","t","e">>, TRUE),
      Input("tel", <<"E","M","A","I","L","2">>, TRUE),
      Input("text", <<"u","s","e","r","n","a","m","e">>, FALSE),
      Input("hidden", <<"t","o","k","e","n">>, FALSE) }

\* a form: its input elements in document order, and the first element that
\* matches submit_selector: "none", "visible" or "hidden"
Form(inputs, submit) == [inputs |-> inputs, submit |-> submit]

Forms ==
    { Form(i, s) : i \in SeqsUpTo(Inputs, MaxInputs),
                   s \in {"none", "visible", "hidden"} }

\* the form of test_crawl_form_detection
TestForm == Form(<<iUsername>>, "visible")

\* the pages handle_forms is run on: no form, one form, or two forms
Pages ==
    {<<>>} \cup { <<f>> : f \in Forms }
           \cup { <<TestForm, f>> : f \in { TestForm, Form(<<iTel>>, "visible"),
                                            Form(<<iPassword>>, "none") } }
           \cup { <<Form(<<iTel>>, "visible"), TestForm>>,
                  <<Form(<<iUserEmail, iPassword>>, "visible"),
                    Form(<<iTel>>, "visible")>> }

\* line 201: the selector "input:not([type='hidden']), textarea"
Selectable(input) == input.type # "hidden"

\* line 201: form.locator(...).all(), as positions in the form
QueriedInputs(form) ==
    SelectSeq([i \in 1..Len(form.inputs) |-> i],
              LAMBDA i : Selectable(form.inputs[i]))

\* line 210: get_attribute("type") or "text"
input_type(type_attr) == IF type_attr = "" THEN "text" ELSE type_attr

\* faulty variant: the name is searched without lower-casing it
NameHasEmail_caseSensitive(input_name) == Contains(input_name, email)

\* line 217: "email" in input_name.lower()
NameHasEmail(input_name) == Contains(Lower(input_name), email)

\* lines 210-219: the dummy value chosen for an input, "" for none
input_val(type_attr, input_name) ==
    LET t == input_type(type_attr) IN
    IF t = "password" THEN "Password123!"
    ELSE IF t = "email" \/ NameHasEmail(input_name) THEN "test@example.com"
    ELSE IF t \in {"text", "search", "url"} THEN "testuser"
    ELSE ""

\* faulty variant: no handler catches the exception
Handler_none(step) == "none"

\* the handler that catches an Exception raised at a step of handle_forms:
\* contextlib.suppress of line 205, the except of line 242 around the click,
\* or the except of line 247 around the whole body
Handler(step) ==
    IF step \in {"is_visible", "get_attribute", "fill"} THEN "suppress"
    ELSE IF step = "click" THEN "inner"
    ELSE "outer"

\* where handle_forms is after an exception that the outer handler, if any,
\* has caught
Escaped(step) == IF Handler(step) = "none" THEN "raised" ELSE "returned"

\* the for loop of line 199 moves to the next form, or handle_forms returns
NextForm ==
    IF fi < Len(forms)
    THEN fi' = fi + 1 /\ hpc' = "inputs"
    ELSE hpc' = "returned" /\ UNCHANGED fi

\* lines 193-196: page.locator("form").all(); return when there is no form
QueryForms ==
    /\ hpc = "forms"
    /\ IF forms = <<>>
       THEN hpc' = "returned" /\ UNCHANGED fi
       ELSE hpc' = "inputs" /\ fi' = 1
    /\ UNCHANGED <<forms, below_max, ii, any_filled, fill_calls, clicks,
                   fault_at, links_run>>

\* line 193: page.locator("form").all() raises
QueryFormsFail ==
    /\ hpc = "forms"
    /\ fault_at' = "forms"
    /\ hpc' = Escaped("forms")
    /\ UNCHANGED <<forms, below_max, fi, ii, any_filled, fill_calls, clicks,
                   links_run>>

\* lines 201-203: the inputs of the form are queried, filled = False
QueryInputs ==
    /\ hpc = "inputs"
    /\ ii' = 1
    /\ any_filled' = FALSE
    /\ hpc' = "input"
    /\ UNCHANGED <<forms, below_max, fi, fill_calls, clicks, fault_at,
                   links_run>>

\* line 201: form.locator(...).all() raises
QueryInputsFail ==
    /\ hpc = "inputs"
    /\ fault_at' = "inputs"
    /\ hpc' = Escaped("inputs")
    /\ UNCHANGED <<forms, below_max, fi, ii, any_filled, fill_calls, clicks,
                   links_run>>

\* lines 204-223: one pass of the loop over the inputs
FillInput ==
    /\ hpc = "input"
    /\ ii <= Len(QueriedInputs(forms[fi]))
    /\ LET at == QueriedInputs(forms[fi])[ii]
           input_el == forms[fi].inputs[at]
           v == input_val(input_el.type, input_el.name)
       IN  IF input_el.visible /\ v # ""
           THEN /\ fill_calls' = fill_calls \cup {<<fi, at, v>>}
                /\ any_filled' = TRUE
           ELSE UNCHANGED <<fill_calls, any_filled>>
    /\ ii' = ii + 1
    /\ UNCHANGED <<forms, below_max, hpc, fi, clicks, fault_at, links_run>>

\* lines 205-223: is_visible, get_attribute or fill raises inside the with
\* block; fill is reached only with a visible input and a dummy value
FillInputFail ==
    /\ hpc = "input"
    /\ ii <= Len(QueriedInputs(forms[fi]))
    /\ LET at == QueriedInputs(forms[fi])[ii]
           input_el == forms[fi].inputs[at]
           v == input_val(input_el.type, input_el.name)
       IN  \E step \in {"is_visible", "get_attribute", "fill"} :
             /\ step = "get_attribute" => input_el.visible
             /\ step = "fill" => input_el.visible /\ v # ""
             /\ fill_calls' = IF step = "fill"
                              THEN fill_calls \cup {<<fi, at, v>>}
                              ELSE fill_calls
             /\ fault_at' = IF step = "fill" THEN "fill" ELSE "input"
             /\ IF Handler(step) = "suppress"
                THEN ii' = ii + 1 /\ UNCHANGED hpc
                ELSE hpc' = "raised" /\ UNCHANGED ii
    /\ UNCHANGED <<forms, below_max, fi, any_filled, clicks, links_run>>

\* lines 225-241: after the inputs, the submit control is looked up when
\* something was filled, and clicked when it is there and visible
Submit ==
    /\ hpc = "input"
    /\ ii > Len(QueriedInputs(forms[fi]))
    /\ clicks' = IF any_filled /\ forms[fi].submit = "visible"
                 THEN clicks \cup {fi}
                 ELSE clicks
    /\ NextForm
    /\ UNCHANGED <<forms, below_max, ii, any_filled, fill_calls, fault_at,
                   links_run>>

\* lines 232-243: count() or is_visible() of the submit control raises, or the
\* click (or the wait after it) raises
SubmitFail ==
    /\ hpc = "input"
    /\ ii > Len(QueriedInputs(forms[fi]))
    /\ any_filled
    /\ \E step \in {"submit", "click"} :
         /\ step = "click" => forms[fi].submit = "visible"
         /\ clicks' = IF step = "click" THEN clicks \cup {fi} ELSE clicks
         /\ fault_at' = step
         /\ IF Handler(step) = "inner"
            THEN NextForm
            ELSE hpc' = Escaped(step) /\ UNCHANGED fi
    /\ UNCHANGED <<forms, below_max, ii, any_filled, fill_calls, links_run>>

\* process_page, lines 183-188: handle_forms has returned; the links are
\* extracted when depth < max_depth
ExtractLinks ==
    /\ hpc = "returned"
    /\ links_run' = below_max
    /\ hpc' = "done"
    /\ UNCHANGED <<forms, below_max, fi, ii, any_filled, fill_calls, clicks,
                   fault_at>>

FormsInit ==
    /\ forms \in Pages
    /\ below_max \in BOOLEAN
    /\ hpc = "forms"
    /\ fi = 0
    /\ ii = 0
    /\ any_filled = FALSE
    /\ fill_calls = {}
    /\ clicks = {}
    /\ fault_at = "none"
    /\ links_run = FALSE
    /\ CrawlerOff /\ AnalyzerOff /\ FillOff /\ ProberOff /\ MainOff

FormsNext ==
    \/ QueryForms /\ UNCHANGED <<vars, avars, fvars, pvars, mvars>>
    \/ QueryFormsFail /\ UNCHANGED <<vars, avars, fvars, pvars, mvars>>
    \/ QueryInputs /\ UNCHANGED <<vars, avars, fvars, pvars, mvars>>
    \/ QueryInputsFail /\ UNCHANGED <<vars, avars, fvars, pvars, mvars>>
    \/ FillInput /\ UNCHANGED <<vars, avars, fvars, pvars, mvars>>
    \/ FillInputFail /\ UNCHANGED <<vars, avars, fvars, pvars, mvars>>
    \/ Submit /\ UNCHANGED <<vars, avars, fvars, pvars, mvars>>
    \/ SubmitFail /\ UNCHANGED <<vars, avars, fvars, pvars, mvars>>
    \/ ExtractLinks /\ UNCHANGED <<vars, avars, fvars, pvars, mvars>>

SpecForms == FormsInit /\ [][FormsNext]_hvars

\* ---------------------------------------------------------------- claims
\* C1: in one crawl run page.goto is called at most once for any URL, however
\* often the URL was appended to the frontier.
C1_NavigatedAtMostOnce ==
    \A i, j \in DOMAIN navigated : navigated[i][1] = navigated[j][1] => i = j

\* C1 witness: a URL already navigated in this run is on the frontier again.
C1_Witness ==
    \E i \in DOMAIN queue : queue[i][1] \in NavigatedUrls

\* C2 (as claimed): when crawl has ended, the checkpoint is gone after a clean
\* completion, and after any other exit the checkpoint written by the last
\* completed iteration, the file there when the loop was left, is still there.
C2_CheckpointKeptUnlessClean ==
    pc = "done" =>
        /\ (exitKind = "clean" /\ ~ closeFailed => ~ state_file.exists)
        /\ (exitKind # "clean" /\ fileAtExit.ok => state_file = fileAtExit)

\* C3 (as claimed): a run resumed after an interrupted run never navigates to
\* a URL the checkpoint had recorded as visited when the interrupt came.
C3_ResumeNeverRevisits ==
    (run > 1 /\ lastRun.exit = "interrupt") =>
        NavigatedUrls \cap SeqRange(lastRun.file.visited) = {}

\* C4: with no failures and an unchanged depth, a run resumed after an
\* interrupt ends with the visited set of one uninterrupted crawl.
C4_ResumedVisitedEqualsUninterrupted ==
    (pc = "done" /\ exitKind = "clean" /\ run > 1 /\ faults = 0 /\ sameDepth) =>
        visited = UninterruptedVisited

\* C4 witness: a resumed run completes, part of its visited set loaded from the
\* checkpoint and part navigated after the resume.
C4_Witness ==
    /\ pc = "done" /\ exitKind = "clean" /\ run > 1 /\ faults = 0 /\ sameDepth
    /\ lastRun.exit = "interrupt" /\ lastRun.file.exists
    /\ navigated # <<>>
    /\ visited \ NavigatedUrls # {}

\* C5: when crawl has returned or raised, the recording context has been
\* closed, unless context.close() itself raised.
C5_ContextClosedOnEveryExit ==
    (pc = "done" /\ ~ closeFailed) => context = "closed"

\* C5 witness: crawl has raised after an interrupt, with the context closed.
C5_Witness ==
    pc = "done" /\ exitKind = "interrupt" /\ outcome = "raised" /\ context = "closed"

\* C6: a navigation failure leaves the loop running (the next step is the
\* checkpoint of that iteration), the failed URL stays visited, is navigated
\* once only, and its number of frontier entries never grows again in that run.
C6_FailedUrlDroppedLoopContinues ==
    /\ [](/\ failed \subseteq visited
          /\ \A u \in failed :
                Cardinality({ i \in DOMAIN navigated : navigated[i][1] = u }) = 1)
    /\ [][run' = run =>
            /\ (failed' # failed => pc' = "save")
            /\ \A u \in failed : CountInQueue(queue', u) <= CountInQueue(queue, u)]_vars

\* C6 witness: after a failure, another page that links to the failed URL has
\* been processed.
C6_Witness ==
    /\ failed # {}
    /\ pc = "save"
    /\ cur[1] \notin failed
    /\ cur[2] < max_depth
    /\ extract_links(cur[1]) \cap failed # {}

\* the extension test of the claims, stated apart from the crawler's own
KnownStaticSuffix(path) == \E ext \in static_exts : EndsWith(Lower(path), ext)

\* the URLs that link discovery put on the frontier, and those visited beyond
\* the start URL
DiscoveredUrls ==
    { queue[i][1] : i \in { j \in DOMAIN queue : queue[j][2] > 0 } }
        \cup (visited \ {start_url})

\* C7 (as claimed): every discovered URL that is enqueued or visited has the
\* scheme and the host of the start URL and no static-asset extension.
C7_SameSchemeAndHost ==
    \A u \in DiscoveredUrls :
        /\ u.scheme = start_url.scheme
        /\ u.netloc = start_url.netloc
        /\ ~ KnownStaticSuffix(u.path)

\* C7 (amended): every discovered URL that is enqueued or visited has the host
\* of the start URL, the scheme http or https, and no static-asset extension
\* in any letter case.
C7_SameHostHttpNotStatic ==
    \A u \in DiscoveredUrls :
        /\ u.netloc = start_url.netloc
        /\ u.scheme \in {"http", "https"}
        /\ ~ KnownStaticSuffix(u.path)

\* C7 witness: link discovery ran on a page carrying a static-asset link, and
\* a link with the other scheme is on the frontier.
C7_Witness ==
    /\ pc = "save"
    /\ cur[2] < max_depth
    /\ \E l \in extract_links(cur[1]) : KnownStaticSuffix(l.path)
    /\ \E i \in DOMAIN queue : queue[i][1].scheme # start_url.scheme

\* a URL link discovery may follow: on the start URL's host, http or https,
\* no static-asset extension
Crawlable(u) ==
    /\ u.netloc = start_url.netloc
    /\ u.scheme \in {"http", "https"}
    /\ ~ KnownStaticSuffix(u.path)

\* the start URL and every crawlable URL a chain of at most k links leads to
RECURSIVE ReachableWithin(_)
ReachableWithin(k) ==
    IF k = 0 THEN {start_url}
    ELSE LET prev == ReachableWithin(k - 1)
         IN  prev \cup { l \in UNION { extract_links(u) : u \in prev } : Crawlable(l) }

\* C8 (as claimed): a crawl that completes without failures has visited
\* exactly the start URL and the crawlable URLs within max_depth links of it;
\* on the site whose start page links to itself, to another host and to an
\* image, at max_depth 1, exactly the start URL.
C8_VisitedIsReachableSet ==
    (pc = "done" /\ exitKind = "clean" /\ run = 1 /\ faults = 0) =>
        /\ visited = ReachableWithin(max_depth)
        /\ (site = SiteSelf /\ max_depth = 1 => visited = {start_url})

\* the general half of C8 alone, which the code satisfies
C8_VisitedIsReachableSetGeneral ==
    (pc = "done" /\ exitKind = "clean" /\ run = 1 /\ faults = 0) =>
        visited = ReachableWithin(max_depth)

\* C9: no page.goto happens at a depth beyond max_depth; dropping an entry
\* that is too deep changes neither the visited set nor the control flow of
\* the loop; the links of a page at depth d are enqueued at depth d + 1.
C9_DepthBounded ==
    /\ [](\A i \in DOMAIN navigated : navigated[i][2] <= max_depth)
    /\ [][(run' = run /\ discarded' # discarded) =>
            (visited' = visited /\ navigated' = navigated /\ pc' = "loop")]_vars
    /\ [][(pc = "process" /\ pc' = "save") =>
            \A i \in (Len(queue) + 1)..Len(queue') : queue'[i][2] = cur[2] + 1]_vars

\* C9 witness: a run has dropped an entry for its depth and navigated another.
C9_Witness ==
    discarded # {} /\ navigated # <<>>

\* C10 (as claimed): after an iteration that processed a URL the checkpoint
\* holds the visited set and the frontier in order, and once crawl has ended
\* on an interrupt after such an iteration the checkpoint lacks at most the
\* URL that was in flight.
C10_CheckpointLosesAtMostInFlight ==
    /\ pc = "sleep" =>
          /\ state_file.ok
          /\ SeqRange(state_file.visited) = visited
          /\ Len(state_file.visited) = Cardinality(visited)
          /\ state_file.queue = queue
    /\ (pc = "done" /\ exitKind = "interrupt" /\ fileAtExit.ok) =>
          /\ state_file.ok
          /\ visited \ SeqRange(state_file.visited) \subseteq {cur[1]}

\* the first half of C10 alone, which the code satisfies
C10_CheckpointEqualsMemoryAfterSave ==
    pc = "sleep" =>
        /\ state_file.ok
        /\ SeqRange(state_file.visited) = visited
        /\ Len(state_file.visited) = Cardinality(visited)
        /\ state_file.queue = queue

\* ---------------------------------------------------------------- claims on the prefix analyzer
\* the content types of the logs that the allow-list is meant to admit
ApiLike(e) == e.mimeType \in {mimeJson, mimeJsonCharset, mimeHtml, mimeForm}
\* the API-like entries of the log, in order
ApiEntries == SelectSeq(har.entries, ApiLike)
\* detect_api_prefix has been applied to the state's log
Applied == apc # "start"

\* C11: detect_api_prefix returns None for every traffic log that has no entry
\* with an API-like response content type, the empty log included.
C11_NoApiEntryGivesNone ==
    (Applied /\ har.status = "ok" /\ ApiEntries = <<>>) => detected_prefix = None

C11_Witness ==
    /\ apc = "detected"
    /\ har = HarFile(<<eLogo, eLogo>>)
    /\ detected_prefix = None

\* number of API-like entries of the log whose host is netloc
HostCount(netloc) ==
    Cardinality({ i \in 1..Len(ApiEntries) : ApiEntries[i].url.netloc = netloc })
\* a hint was given and no API-like entry has its host
HintMatchesNothing == target_url.netloc # "" /\ HostCount(target_url.netloc) = 0

C13_MatchedHintGivesHost ==
    (Applied /\ har.status = "ok" /\ target_url.netloc # ""
       /\ HostCount(target_url.netloc) > 0) =>
        /\ detected_prefix.kind = "str"
        /\ detected_prefix.netloc = target_url.netloc

C13_Witness ==
    /\ apc = "detected"
    /\ har = HarFile(<<eLogin, eLogin, eUsers>>)
    /\ target_url = Url("https", "api.example.com", <<"/","app">>)
    /\ detected_prefix.netloc = "api.example.com"

\* the segments of a path: its text between the separators
Segs(path) == SelectSeq(path, LAMBDA t : t # "/")
\* the path string "/s1/s2/..." of a list of segments
PathOfSegs(segs) ==
    [i \in 1..(2 * Len(segs)) |-> IF i % 2 = 1 THEN "/" ELSE segs[i \div 2]]
IsPrefix(a, b) == Len(a) <= Len(b) /\ SubSeq(b, 1, Len(a)) = a
\* every API-like entry has the scheme and host of the first one
SameBase ==
    \A i \in 1..Len(ApiEntries) :
        /\ ApiEntries[i].url.scheme = ApiEntries[1].url.scheme
        /\ ApiEntries[i].url.netloc = ApiEntries[1].url.netloc
\* the longest list of leading segments that all API-like entries share
SharedSegs ==
    LET first == Segs(ApiEntries[1].url.path)
        shared(k) == \A i \in 1..Len(ApiEntries) :
                         IsPrefix(SubSeq(first, 1, k), Segs(ApiEntries[i].url.path))
        n == CHOOSE k \in 0..Len(first) :
                 shared(k) /\ \A m \in 0..Len(first) : shared(m) => m <= k
    IN  SubSeq(first, 1, n)
\* one segment right after the shared ones is carried by 60% of the entries
DominantContinuation ==
    LET n == Len(SharedSegs)
        next(i) == Segs(ApiEntries[i].url.path)
    IN  \E i \in 1..Len(ApiEntries) :
            /\ Len(next(i)) > n
            /\ 10 * Cardinality({ j \in 1..Len(ApiEntries) :
                        Len(next(j)) > n /\ next(j)[n + 1] = next(i)[n + 1] })
                 >= 6 * Len(ApiEntries)

\* C14 as stated: when all API-like entries share one scheme, host and path
\* prefix, detect_api_prefix returns exactly that scheme, host and prefix.
C14_SharedPrefixReturned ==
    (Applied /\ har.status = "ok" /\ ApiEntries # <<>> /\ SameBase) =>
        detected_prefix = Str(ApiEntries[1].url.scheme, ApiEntries[1].url.netloc,
                              PathOfSegs(SharedSegs))

\* C14 amended: the returned scheme and host are the shared ones and the
\* returned path starts with the shared prefix; it is exactly the shared prefix
\* unless one segment right after it is carried by at least 60% of the entries.
C14_SharedPrefixOrDominantBranch ==
    (Applied /\ har.status = "ok" /\ ApiEntries # <<>> /\ SameBase) =>
        /\ detected_prefix.kind = "str"
        /\ detected_prefix.scheme = ApiEntries[1].url.scheme
        /\ detected_prefix.netloc = ApiEntries[1].url.netloc
        /\ IsPrefix(PathOfSegs(SharedSegs), detected_prefix.path)
        /\ ~DominantContinuation => detected_prefix.path = PathOfSegs(SharedSegs)

C14_Witness ==
    /\ apc = "detected"
    /\ har = HarFile(<<eLogin, eRegister>>)
    /\ detected_prefix = Str("https", "legacy-app.com", <<"/","auth">>)

\* the API-like entries the hint leaves: those of the hint's host when there
\* are any, all of them otherwise
Remaining ==
    IF target_url.netloc # "" /\ HostCount(target_url.netloc) > 0
    THEN SelectSeq(ApiEntries, LAMBDA e : e.url.netloc = target_url.netloc)
    ELSE ApiEntries
\* one value occurs more often in the list than every other value
UniqueTop(values) ==
    LET n(v) == Cardinality({ i \in 1..Len(values) : values[i] = v })
    IN  \E i \in 1..Len(values) :
            \A j \in 1..Len(values) : values[j] # values[i] => n(values[j]) < n(values[i])
\* the orders of n entries, for every length of a log
Orders == [n \in { Len(l) : l \in Logs } |-> Perms(1..n)]
\* the log's entries in every order
PermutedLogs ==
    { [i \in 1..Len(har.entries) |-> har.entries[p[i]]] :
          p \in Orders[Len(har.entries)] }

\* C15 as stated: every permutation of the log's entries yields the same prefix.
C15_OrderIndependent ==
    (Applied /\ har.status = "ok") =>
        \A l \in PermutedLogs :
            detect_api_prefix(HarFile(l), target_url) = detected_prefix

\* C15 amended: every permutation of the log's entries yields the same prefix
\* when, among the API-like entries the hint leaves, one scheme and one host
\* are each more frequent than every other.
C15_OrderIndependentWithoutTies ==
    (Applied /\ har.status = "ok" /\ Remaining # <<>>
       /\ UniqueTop([i \in 1..Len(Remaining) |-> Remaining[i].url.scheme])
       /\ UniqueTop([i \in 1..Len(Remaining) |-> Remaining[i].url.netloc])) =>
        \A l \in PermutedLogs :
            detect_api_prefix(HarFile(l), target_url) = detected_prefix

C15_Witness ==
    /\ apc = "detected"
    /\ har = HarFile(<<ePosts, eUsers, eUsers>>)
    /\ detected_prefix = Str("https", "api.example.com", <<"/","v1","/","users">>)
    /\ detect_api_prefix(HarFile(<<eUsers, ePosts, eUsers>>), target_url) = detected_prefix

\* thresholds compared, in tenths
Thresholds == {0, 3, 5, 6, 8, 10}
\* the paths the segment walk of the state's log starts from
WalkedPaths == base_paths(FilterByTarget(api_urls(har.entries), target_url))

\* C16: for every log, the segment sequence accepted with a lower threshold
\* has the sequence accepted with a higher threshold as a prefix.
C16_ThresholdMonotonic ==
    (Applied /\ har.status = "ok" /\ ApiEntries # <<>>) =>
        \A accepted \in {[t \in Thresholds |-> common_segments(WalkedPaths, t)]} :
            \A lo \in Thresholds, hi \in Thresholds :
                lo <= hi => IsPrefix(accepted[hi], accepted[lo])

C16_Witness ==
    /\ apc = "detected"
    /\ har = HarFile(<<eUsers, ePosts>>)
    /\ common_segments(WalkedPaths, 6) = << <<"v1">> >>
    /\ common_segments(WalkedPaths, 5) = << <<"v1">>, <<"users">> >>

\* C17 as stated: prefix inference on a missing or unparseable traffic log
\* stops the stage with an error; no result is handed on.
C17_UnreadableLogIsFatal ==
    (Applied /\ har.status # "ok") => apc = "raised"

\* C17 amended: prefix inference on a missing or unparseable traffic log does
\* not raise: it returns None, and the spec generation of the crawl goes on
\* with the root URL of the start URL as the prefix.
C17_UnreadableLogGivesNone ==
    (Applied /\ har.status # "ok") =>
        /\ apc # "raised"
        /\ detected_prefix = None
        /\ apc # "detected" => target_prefix = Str(target_url.scheme, target_url.netloc, <<>>)

C17_Witness ==
    /\ har.status = "missing"
    /\ apc = "generate_failed"
    /\ target_prefix = Str("https", "api.example.com", <<>>)

\* ---------------------------------------------------------------- claims on the prober and the pipeline
\* a token that is neither a brace nor a separator
IsText(t) == t \notin {"{", "}", "/"}
\* the braces of the template form placeholders "{name}" only
WellFormed(t) ==
    \A i \in 1..Len(t) :
        /\ t[i] = "{" => \E j \in (i + 2)..Len(t) :
                             /\ t[j] = "}"
                             /\ \A k \in (i + 1)..(j - 1) : IsText(t[k])
        /\ t[i] = "}" => \E j \in 1..(i - 2) :
                             /\ t[j] = "{"
                             /\ \A k \in (j + 1)..(i - 1) : IsText(t[k])
\* position i of a well-formed template lies in a placeholder, after its "{"
InPlaceholder(t, i) ==
    /\ t[i] # "{"
    /\ \E j \in 1..(i - 1) :
           /\ t[j] = "{"
           /\ \A k \in (j + 1)..(i - 1) : IsText(t[k])
\* a well-formed template with "1" in the place of each placeholder
Replaced(t) ==
    LET kept == SelectSeq([i \in 1..Len(t) |-> i], LAMBDA i : ~InPlaceholder(t, i))
    IN  [n \in 1..Len(kept) |-> IF t[kept[n]] = "{" THEN "1" ELSE t[kept[n]]]

\* C18: _fill_params replaces every {placeholder} of a path template with 1
\* and leaves the literal segments and the separators as they are; a template
\* without braces is returned unchanged; applying it twice gives what applying
\* it once gives.
C18_FillParams ==
    /\ (fpc \in {"filled", "refilled"} /\ WellFormed(path_template)) =>
           filled = Replaced(path_template)
    /\ (fpc \in {"filled", "refilled"}
          /\ \A i \in 1..Len(path_template) : path_template[i] \notin {"{", "}"}) =>
           filled = path_template
    /\ fpc = "refilled" => refilled = filled

C18_Witness ==
    /\ fpc = "refilled"
    /\ path_template = <<"/","items","/","{","itemId","}","/","details">>
    /\ filled = <<"/","items","/","1","/","details">>
    /\ refilled = filled

\* the requests attempted for the endpoint at index e
RequestsOf(e) == SelectSeq(requests, LAMBDA r : r.ep = e)

\* C19: probe attempts exactly samples requests for each loaded endpoint, to
\* api_prefix + filled path with the endpoint's method, E x samples in all;
\* an attempt that fails is not repeated and never ends the probing.
C19_SamplesPerEndpoint ==
    /\ ppc = "finished" =>
         /\ Len(requests) = Len(endpoints) * samples
         /\ \A e \in 1..Len(endpoints) :
                /\ Len(RequestsOf(e)) = samples
                /\ \A i \in 1..Len(RequestsOf(e)) :
                       /\ RequestsOf(e)[i].method = endpoints[e].method
                       /\ RequestsOf(e)[i].url = api_prefix \o Replaced(endpoints[e].path)
    /\ ppc = "exited" => requests = <<>>
    /\ \A e \in 1..Len(endpoints) : Len(RequestsOf(e)) <= samples

C19_Witness ==
    /\ ppc = "finished"
    /\ samples = 2
    /\ Len(endpoints) = 2
    /\ Len(requests) = 4
    /\ requests[1].outcome = "exception"
    /\ requests[2].outcome = "non2xx"
    /\ requests[1].url = <<"http://api.test.com","/","v1","/","users","/","1">>
    /\ requests[4].method = <<"P","O","S","T">>

\* C20: the base URL handed to run_prober and the api_prefix handed to the
\* final spec synthesis are the prefix detect_api_prefix infers from the
\* crawl's traffic log, and the target only when it infers none.
C20_PipelineUsesInferredPrefix ==
    LET inferred == detect_api_prefix(har, target_url)
        expected == IF inferred.kind = "str" THEN {inferred}
                    ELSE {UrlStr(target_url), root_url(target_url)}
    IN  /\ prober_base # None => prober_base \in expected
        /\ final_prefix # None => final_prefix \in expected

\* C21 (as claimed): when the proxy had already exited at the readiness check
\* the process ends with a non-zero exit status, and when the pipeline ran
\* through its last step the process ends with exit status zero.
C21_ExitStatusReflectsSetupFailure ==
    mpc = "done" =>
        /\ (pending = "return" => exit_status # 0)
        /\ (final_prefix # None => exit_status = 0)

\* the proxy was started and the finally block of async_main has run
ProxyStopped == mpc \in {"stopped", "step4", "done"} /\ proxy # "none"

\* the steps of the finally block
StopStep == SignalProxy \/ GraceWait \/ KillProxy \/ AfterStop

\* C22 (as claimed): on every exit path of async_main after the proxy was
\* started, SIGTERM has been sent to the proxy's process group.
C22_TerminateSentOnEveryExit ==
    ProxyStopped => sigterm

\* C22 (amended): on every exit path of async_main after the proxy was started,
\* SIGTERM has been sent to the proxy's process group unless poll() had
\* already seen the proxy exit, in which case nothing is sent; after the
\* bounded wait the proxy has exited or has been sent SIGKILL, SIGKILL is sent
\* only after SIGTERM, and no step of the shutdown can block.
C22_ProxyStoppedOnEveryExit ==
    /\ ProxyStopped =>
          /\ sigterm <=> proxy # "exited"
          /\ proxy \in {"exited", "terminated", "dying", "killed"}
          /\ sigkill <=> proxy \in {"dying", "killed"}
          /\ sigkill => sigterm
    /\ mpc \in {"stopping", "grace", "escalate", "stopped"} => ENABLED StopStep

\* C22 witness: an interrupted probing run has ended after SIGTERM, the bounded
\* wait timing out, and SIGKILL.
C22_Witness ==
    mpc = "done" /\ pending = "interrupt" /\ sigterm /\ sigkill

\* C23 (as claimed): the final spec synthesis starts reading the proxy's dump
\* only when the proxy has exited.
C23_DumpReadAfterProxyExit ==
    mpc = "step4" => proxy \in {"terminated", "killed"}

\* ---------------------------------------------------------------- claims on form handling
\* handle_forms has gone through the page without any step raising
FormsHandled == hpc \in {"returned", "done"} /\ fault_at = "none"

\* fill() was called on input j of form k with value v
Filled(k, j, v) == <<k, j, v>> \in fill_calls

\* the name of the input holds 'email' in some mix of upper and lower case
NamedEmail(input) ==
    \E i \in 1..(Len(input.name) - 4) :
        /\ input.name[i] \in {"e", "E"} /\ input.name[i + 1] \in {"m", "M"}
        /\ input.name[i + 2] \in {"a", "A"} /\ input.name[i + 3] \in {"i", "I"}
        /\ input.name[i + 4] \in {"l", "L"}

\* the value the claim gives an input, "" for an input it leaves unfilled
ClaimedValue(input) ==
    IF input.type = "hidden" \/ ~ input.visible THEN ""
    ELSE IF input.type = "password" THEN "Password123!"
    ELSE IF input.type = "email" \/ NamedEmail(input) THEN "test@example.com"
    ELSE IF input.type \in {"text", "search", "url", ""} THEN "testuser"
    ELSE ""

\* every input of every form got the fill() call the claim gives it, and no
\* other
FilledAsClaimed ==
    /\ \A k \in DOMAIN forms : \A j \in DOMAIN forms[k].inputs :
          \A w \in {ClaimedValue(forms[k].inputs[j])} :
             /\ w # "" => Filled(k, j, w)
             /\ \A c \in fill_calls : (c[1] = k /\ c[2] = j) => c[3] = w
    /\ \A c \in fill_calls :
          c[1] \in DOMAIN forms /\ c[2] \in DOMAIN forms[c[1]].inputs

\* C24 (as claimed): handle_forms fills each visible, non-hidden input by its
\* type and name as listed and leaves every other input alone, and clicks the
\* submit control of every form that has a (visible) one.
C24_FillsByTypeAndSubmitsWhenFound ==
    FormsHandled =>
        /\ FilledAsClaimed
        /\ \A k \in DOMAIN forms : forms[k].submit = "visible" => k \in clicks

\* C24 (amended): the inputs are filled as listed, the password type taking
\* precedence over an email name; the submit control of a form is clicked
\* exactly when at least one input of that form was filled and the first
\* submit control found is visible.
C24_FillsByTypeAndSubmitsWhenFilled ==
    FormsHandled =>
        /\ FilledAsClaimed
        /\ \A k \in DOMAIN forms :
              k \in clicks <=>
                 /\ forms[k].submit = "visible"
                 /\ \E c \in fill_calls : c[1] = k

\* C24 witness: a form with a text input named UserEmail and a password input
\* has been filled and submitted, and a form without a fillable input has a
\* visible submit control that was not clicked.
C24_Witness ==
    /\ FormsHandled
    /\ \E k \in DOMAIN forms :
          /\ k \in clicks
          /\ \E j \in DOMAIN forms[k].inputs :
                forms[k].inputs[j] = iUserEmail /\ Filled(k, j, "test@example.com")
    /\ \E k \in DOMAIN forms :
          /\ forms[k].submit = "visible" /\ k \notin clicks
          /\ forms[k].inputs # <<>>

\* C30: an Exception raised while a form control is filled, while the forms or
\* the inputs of a form are queried, or while the submit control is looked up
\* or clicked never leaves handle_forms: it returns normally, and process_page
\* goes on to extract the links exactly as it does without the failure.
C30_FormFailuresNeverAbortPage ==
    /\ hpc # "raised"
    /\ hpc = "done" => links_run = below_max
    /\ fault_at \in {"input", "fill"} => hpc \in {"inputs", "input", "returned", "done"}
    /\ fault_at \in {"forms", "inputs", "submit"} => hpc \in {"returned", "done"}

\* C30 witness: the click on a submit control raised after an input was
\* filled, and the links of the page were extracted all the same.
C30_Witness ==
    hpc = "done" /\ fault_at = "click" /\ fill_calls # {} /\ links_run

\* ---------------------------------------------------------------- claims on the base and the segment walk
\* the (scheme, host) pairs of the API-like entries the hint leaves, in order
RemainingPairs ==
    [i \in 1..Len(Remaining) |-> <<Remaining[i].url.scheme, Remaining[i].url.netloc>>]

\* C25 (as claimed): the base of the returned prefix is the most frequent
\* (scheme, host) pair among the API-like entries the hint leaves, the pair
\* seen first on ties, and so it is the scheme and host of one of them.
C25_BaseIsMostFrequentPair ==
    (Applied /\ har.status = "ok" /\ Remaining # <<>>) =>
        /\ detected_prefix.kind = "str"
        /\ <<detected_prefix.scheme, detected_prefix.netloc>> = most_common(RemainingPairs)
        /\ \E i \in 1..Len(RemainingPairs) :
              RemainingPairs[i] = <<detected_prefix.scheme, detected_prefix.netloc>>

\* the segment lists the walk of the state's log starts from
WalkedLists == [k \in 1..Len(WalkedPaths) |-> Split(Strip(WalkedPaths[k]))]

\* the segments at index n (counted from 0) of the lists that begin with the
\* first n of the given segments and are longer than n
AliveAt(segs, n) ==
    LET alive == SelectSeq(WalkedLists, LAMBDA s :
                     Len(s) > n /\ SubSeq(s, 1, n) = SubSeq(segs, 1, n))
    IN  [k \in 1..Len(alive) |-> alive[k][n + 1]]

\* C26: every accepted segment is the most frequent one at its index among the
\* paths that carry all segments accepted before it, and its count is at
\* least 60% of the original number of base-matching paths; the walk ends at
\* the first index where no path is left or the most frequent segment falls
\* short of that share; paths /api/v1 (40%), /api/v2 (40%), /auth (20%) give
\* the prefix /api.
C26_ShareOfOriginalTotal ==
    (Applied /\ har.status = "ok" /\ ApiEntries # <<>>) =>
        \A segs \in {common_segments(WalkedPaths, threshold)} :
            /\ \A n \in 0..(Len(segs) - 1) :
                  \A at \in {AliveAt(segs, n)} :
                     /\ at # <<>>
                     /\ segs[n + 1] = most_common(at)
                     /\ Count(at, segs[n + 1]) * 10 >= threshold * Len(WalkedPaths)
            /\ \A at \in {AliveAt(segs, Len(segs))} :
                  \/ at = <<>>
                  \/ Count(at, most_common(at)) * 10 < threshold * Len(WalkedPaths)
            /\ har = HarFile(<<eApiV1, eApiV1, eApiV2, eApiV2, eAuth>>) =>
                  segs = << <<"api">> >>

\* C26 witness: the walk over /api/v1, /api/v1, /api/v2, /api/v2, /auth has
\* accepted api (80%) and stopped at v1 (40% of all five, 50% of those alive).
C26_Witness ==
    /\ apc = "detected"
    /\ har = HarFile(<<eApiV1, eApiV1, eApiV2, eApiV2, eAuth>>)
    /\ detected_prefix = Str("https", "api.example.com", <<"/","api">>)

\* ---------------------------------------------------------------- claims on the frontier and on failures
\* C27: within a run, fresh or resumed, no step appends to the frontier a URL
\* that is in the visited set.
C27_VisitedNeverReEnqueued ==
    [][(run' = run /\ Len(queue') > Len(queue)) =>
          \A i \in (Len(queue) + 1)..Len(queue') : queue'[i][1] \notin visited]_vars

\* C27 witness: in a resumed run a page has been processed whose links include
\* a URL of the visited set other than the page itself, and the frontier does
\* not hold that URL.
C27_Witness ==
    /\ run > 1 /\ pc = "save" /\ faults = 0
    /\ cur[2] < max_depth
    /\ \E l \in extract_links(cur[1]) :
          l \in visited /\ l # cur[1] /\ CountInQueue(queue, l) = 0

\* C28: the depths of the frontier entries never decrease from head to tail,
\* the pages of a run are navigated in non-decreasing depth order, and no
\* entry waiting on the frontier is shallower than a page already navigated.
C28_BreadthFirstOrder ==
    /\ \A i, j \in DOMAIN queue : i <= j => queue[i][2] <= queue[j][2]
    /\ \A i, j \in DOMAIN navigated : i <= j => navigated[i][2] <= navigated[j][2]
    /\ \A i \in DOMAIN navigated : \A j \in DOMAIN queue :
          navigated[i][2] <= queue[j][2]

\* C28 witness: pages of two depths have been navigated and the frontier holds
\* entries of two depths.
C28_Witness ==
    /\ Len(queue) >= 2 /\ queue[1][2] < queue[Len(queue)][2]
    /\ Len(navigated) >= 2 /\ navigated[1][2] < navigated[Len(navigated)][2]

\* C29 (as claimed): no failure of a step taken for one URL ends the fetch
\* loop, which is left only on an empty frontier or an interrupt; when
\* context.close() fails, crawl raises.
C29_OnlyFinalizationIsFatal ==
    /\ exitKind \in {"none", "clean", "interrupt"}
    /\ (pc = "done" /\ closeFailed) => outcome = "raised"

====
